---- MODULE Spec2Model ----
(***************************************************************************)
(* Model of the dictionary tokenization codec of Black_Hole_102.py:        *)
(* load_dictionary_from_file, compress_text_with_dictionary and            *)
(* decompress_text_with_dictionary, with the three loops of the program    *)
(* taken one iteration per step.                                           *)
(*                                                                         *)
(* A str is a sequence of code points, a bytes object a sequence of        *)
(* integers in 0..255.  A dictionary is a function from words to ids.      *)
(***************************************************************************)
EXTENDS Integers, Sequences, FiniteSets, TLC

\* ------------------------------------------------------------------ bounds
MaxTextLen == 3
MaxLines == 2
MaxLoadLines == 3
MaxData == 3

\* --------------------------------------------------------------- constants
\* largest value bytearray.append accepts
ByteMax == 255
\* default of the max_lines parameter
DefaultMaxLines == 16777216

\* ----------------------------------------------------------- str and bytes
\* str.isspace() of one character, which is also the class \s of re
IsSpace(c) ==
    \/ c \in 9..13
    \/ c \in 28..32
    \/ c \in {133, 160, 5760, 8232, 8233, 8239, 8287, 12288}
    \/ c \in 8192..8202

\* token.isspace(): non-empty and every character is whitespace
isspace(s) == Len(s) > 0 /\ \A k \in 1..Len(s) : IsSpace(s[k])

\* UTF-8 encoding of one code point
EncodeChar(c) ==
    IF c < 128 THEN << c >>
    ELSE IF c < 2048 THEN << 192 + (c \div 64), 128 + (c % 64) >>
    ELSE IF c < 65536 THEN
        << 224 + (c \div 4096), 128 + ((c \div 64) % 64), 128 + (c % 64) >>
    ELSE << 240 + (c \div 262144), 128 + ((c \div 4096) % 64),
            128 + ((c \div 64) % 64), 128 + (c % 64) >>

RECURSIVE encode(_)
\* str.encode('utf-8'): the encodings of the characters, in order
encode(s) ==
    IF Len(s) = 0 THEN << >>
    ELSE IF Len(s) = 1 THEN EncodeChar(s[1])
    ELSE LET h == Len(s) \div 2
         IN  encode(SubSeq(s, 1, h)) \o encode(SubSeq(s, h + 1, Len(s)))

IsCont(b) == b \in 128..191

\* One step of the UTF-8 decoder at position p of b (1-based): the number of
\* bytes it consumes and the code points it yields; invalid bytes are dropped
\* (errors='ignore').
DecodeAt(b, p) ==
    LET n == Len(b) - p + 1
        c1 == b[p]
        c2 == b[p + 1]
        c3 == b[p + 2]
        c4 == b[p + 3]
        drop(k) == [used |-> k, out |-> << >>]
    IN  IF c1 < 128 THEN [used |-> 1, out |-> << c1 >>]
        ELSE IF c1 < 194 THEN drop(1)
        ELSE IF c1 < 224 THEN
            IF n < 2 THEN drop(n)
            ELSE IF ~IsCont(c2) THEN drop(1)
            ELSE [used |-> 2, out |-> << (c1 - 192) * 64 + (c2 - 128) >>]
        ELSE IF c1 < 240 THEN
            IF n < 2 THEN drop(n)
            ELSE IF ~IsCont(c2) \/ (c1 = 224 /\ c2 < 160) \/ (c1 = 237 /\ c2 >= 160)
                THEN drop(1)
            ELSE IF n < 3 THEN drop(n)
            ELSE IF ~IsCont(c3) THEN drop(2)
            ELSE [used |-> 3,
                  out |-> << (c1 - 224) * 4096 + (c2 - 128) * 64 + (c3 - 128) >>]
        ELSE IF c1 < 245 THEN
            IF n < 2 THEN drop(n)
            ELSE IF ~IsCont(c2) \/ (c1 = 240 /\ c2 < 144) \/ (c1 = 244 /\ c2 >= 144)
                THEN drop(1)
            ELSE IF n < 3 THEN drop(n)
            ELSE IF ~IsCont(c3) THEN drop(2)
            ELSE IF n < 4 THEN drop(n)
            ELSE IF ~IsCont(c4) THEN drop(3)
            ELSE [used |-> 4,
                  out |-> << (c1 - 240) * 262144 + (c2 - 128) * 4096
                             + (c3 - 128) * 64 + (c4 - 128) >>]
        ELSE drop(1)

RECURSIVE DecodeRange(_, _, _)
\* The decoder run from position lo, a start of a sequence, over the sequences
\* that start at or before hi: what it yields and where it stands afterwards.
DecodeRange(b, lo, hi) ==
    IF lo > hi THEN [out |-> << >>, next |-> lo]
    ELSE IF lo = hi THEN
        LET r == DecodeAt(b, lo) IN [out |-> r.out, next |-> lo + r.used]
    ELSE LET mid == (lo + hi) \div 2
             l == DecodeRange(b, lo, mid)
             r == DecodeRange(b, l.next, hi)
         IN  [out |-> l.out \o r.out, next |-> r.next]

\* bytes.decode('utf-8', errors='ignore')
decode(b) == DecodeRange(b, 1, Len(b)).out

\* data[lo:hi] of Python, 0-based and clipped to the length of the data
Slice(b, lo, hi) ==
    LET h == IF hi > Len(b) THEN Len(b) ELSE hi
    IN  IF lo >= h THEN << >> ELSE SubSeq(b, lo + 1, h)

RECURSIVE join(_)
\* ''.join(result)
join(l) == IF l = << >> THEN << >> ELSE Head(l) \o join(Tail(l))

\* n copies of c
Rep(c, n) == [k \in 1..n |-> c]

int_to_3bytes(value) ==
    << (value \div 65536) % 256, (value \div 256) % 256, value % 256 >>

\* (b[2] << 16) | (b[1] << 8) | b[0]: the bytes taken in the reverse order
bytes3_to_int_le(b) == b[3] * 65536 + b[2] * 256 + b[1]

bytes3_to_int(b) == b[1] * 65536 + b[2] * 256 + b[3]

\* ------------------------------------------------------------ tokenization
\* the match of \S or \s: one character, no run
RunLen_one(s) == 1

\* length of the match of \S+ or \s+ at the head of a non-empty s
RunLen(s) ==
    CHOOSE n \in 1..Len(s) :
        /\ \A k \in 1..n : IsSpace(s[k]) = IsSpace(s[1])
        /\ (n = Len(s) \/ IsSpace(s[n + 1]) # IsSpace(s[1]))

RECURSIVE findall(_)
\* re.findall(r'\S+|\s+', text)
findall(s) ==
    IF s = << >> THEN << >>
    ELSE LET n == RunLen(s)
         IN  << SubSeq(s, 1, n) >> \o findall(SubSeq(s, n + 1, Len(s)))

\* line.strip().split(): the maximal runs of non-whitespace of the line
split(line) == SelectSeq(findall(line), LAMBDA t : ~isspace(t))

\* ------------------------------------------------------------------- state
VARIABLES
    lines,        \* the lines of the word list file
    max_lines,    \* parameter of load_dictionary_from_file
    idx,          \* rank of the next line to read
    dictionary,   \* word -> id
    text,         \* the text to compress
    tokens,       \* re.findall(...) of the text
    tk,           \* number of tokens already encoded
    encoded,      \* the bytearray of compress_text_with_dictionary
    marks,        \* offsets in encoded where the records emitted so far start
    data,         \* input of decompress_text_with_dictionary
    i,            \* cursor of the decoder
    result,       \* list of strings of the decoder
    output,       \* ''.join(result) once the decoder has returned
    trail,        \* per loop iteration of the decoder so far: the cursor it
                  \* started at and the number of strings decoded before it
    full,         \* the list decoded from the complete stream
    cut,          \* bytes kept of the stream when it was truncated, else -1
    mode,         \* what the run does: "text", "decode" or "load"
    pc

vars == << lines, max_lines, idx, dictionary, text, tokens, tk, encoded, marks,
           data, i, result, output, trail, full, cut, mode, pc >>

\* ------------------------------------------------------------------ inputs
\* characters of the texts: a, e-acute (2 bytes), space, no-break space (2 bytes)
Chars == {97, 233, 32, 160}

Texts == UNION {[1..k -> Chars] : k \in 0..MaxTextLen}

\* texts with runs of several characters, and with a token at or over the
\* 255-byte limit
LongTexts ==
    { << 97, 233, 32, 160, 10, 97, 97, 32, 32, 233 >>, Rep(32, 300), Rep(97, 255), Rep(97, 256), Rep(160, 127) \o << 32 >>,
      Rep(160, 128), << 97, 32 >> \o Rep(233, 128) \o << 32, 97 >> }

\* lines of a word list: "a", blank, " e-acute a" (two fields), "aa ", each
\* with its newline
LineSet == { << 97, 10 >>, << 10 >>, << 32, 233, 32, 97, 10 >>, << 97, 97, 32, 10 >> }

WordLists(n) == UNION {[1..k -> LineSet] : k \in 0..n}

\* the word list and text of the scenario "the quick brown fox"
FoxLines ==
    << << 116, 104, 101, 10 >>, << 113, 117, 105, 99, 107, 10 >>, << 102, 111, 120, 10 >> >>
FoxText ==
    << 116, 104, 101, 32, 113, 117, 105, 99, 107, 32, 98, 114, 111, 119, 110, 32,
       102, 111, 120 >>

\* word list of the decoding runs: ids 0 and 2 are used, 1 is not
MixedLines == << << 97, 10 >>, << 10 >>, << 32, 233, 32, 97, 10 >> >>

\* pieces of byte streams: complete records, cut records, unknown tags
Pieces ==
    { << 1, 0, 0, 0 >>, << 1, 0, 0, 2 >>, << 1, 0, 0, 1 >>, << 1, 1, 0, 0 >>,
      << 0, 1, 97 >>, << 2, 1, 32 >>, << 0, 2, 195, 169 >>, << 0, 0 >>,
      << 0, 1, 195 >>, << 0, 3, 97 >>, << 1, 0 >>, << 2 >>, << 3 >> }

Streams == {join(p) : p \in UNION {[1..k -> Pieces] : k \in 0..MaxData}}

EmptyDict == [w \in {} |-> 0]

Start ==
    /\ idx = 0
    /\ dictionary = EmptyDict
    /\ tokens = << >>
    /\ tk = 0
    /\ encoded = << >>
    /\ marks = << >>
    /\ i = 0
    /\ result = << >>
    /\ output = << >>
    /\ trail = << >>
    /\ full = << >>
    /\ cut = -1
    /\ pc = "load"

\* compress a text, then decompress the stream with the same word list
Init ==
    /\ Start
    /\ mode = "text"
    /\ max_lines = DefaultMaxLines
    /\ data = << >>
    /\ \/ lines \in WordLists(MaxLines) /\ text \in Texts
       \/ lines = << << 97, 10 >> >> /\ text \in LongTexts
       \/ lines = FoxLines /\ text = FoxText

\* the same, for the runs whose stream is cut before it is decompressed again
InitTrunc ==
    /\ Start
    /\ mode = "text"
    /\ max_lines = DefaultMaxLines
    /\ data = << >>
    /\ \/ lines \in {MixedLines, << >>} /\ text \in Texts
       \/ lines = FoxLines /\ text = FoxText

\* decompress any byte stream
InitDecode ==
    /\ Start
    /\ mode = "decode"
    /\ max_lines = DefaultMaxLines
    /\ text = << >>
    /\ lines = MixedLines
    /\ data \in Streams

\* load a word list
InitLoad ==
    /\ Start
    /\ mode = "load"
    /\ max_lines \in {1, 2, DefaultMaxLines}
    /\ text = << >>
    /\ data = << >>
    /\ lines \in WordLists(MaxLoadLines)

\* ----------------------------------------------- load_dictionary_from_file
\* dictionary.setdefault(word, value): an id already there is kept
Store_first(d, word, value) ==
    [w \in DOMAIN d \cup {word} |-> IF w \in DOMAIN d THEN d[w] ELSE value]

\* dictionary[word] = value
Store(d, word, value) ==
    [w \in DOMAIN d \cup {word} |-> IF w = word THEN value ELSE d[w]]

\* one iteration of the loop over the lines
LoadLine ==
    /\ pc = "load"
    /\ idx < Len(lines)
    /\ idx < max_lines
    /\ LET parts == split(lines[idx + 1])
       IN  dictionary' = IF Len(parts) > 0 THEN Store(dictionary, parts[1], idx)
                         ELSE dictionary
    /\ idx' = idx + 1
    /\ UNCHANGED << lines, max_lines, text, tokens, tk, encoded, marks, data, i,
                    result, output, trail, full, cut, mode, pc >>

\* end of the file, or the break at idx >= max_lines; the caller goes on
LoadReturn ==
    /\ pc = "load"
    /\ idx >= Len(lines) \/ idx >= max_lines
    /\ pc' = CASE mode = "text" -> "compress"
              [] mode = "decode" -> "decode"
              [] OTHER -> "done"
    /\ UNCHANGED << lines, max_lines, idx, dictionary, text, tokens, tk, encoded,
                    marks, data, i, result, output, trail, full, cut, mode >>

\* ------------------------------------------- compress_text_with_dictionary
CompressStart ==
    /\ pc = "compress"
    /\ tokens' = findall(text)
    /\ encoded' = << >>
    /\ pc' = "encode"
    /\ UNCHANGED << lines, max_lines, idx, dictionary, text, tk, marks, data, i,
                    result, output, trail, full, cut, mode >>

\* result.append(n): a ValueError unless n is in range(0, 256)
Fits(n) == n <= ByteMax

\* dictionary.get(token) taken as a truth value: id 0 counts as absent
Known_truthy(d, token) == token \in DOMAIN d /\ d[token] # 0

\* dictionary.get(token) is not None
Known(d, token) == token \in DOMAIN d

\* len(token): characters, not bytes
LengthByte_chars(token) == Len(token)

\* len(token.encode('utf-8'))
LengthByte(token) == Len(encode(token))

\* the bytes one iteration of the loop appends for a token; ok is FALSE when
\* the append of the length raises, after the tag was appended
Emit(d, token) ==
    IF isspace(token) THEN
        IF Fits(LengthByte(token))
        THEN [ok |-> TRUE, bytes |-> << 2, LengthByte(token) >> \o encode(token)]
        ELSE [ok |-> FALSE, bytes |-> << 2 >>]
    ELSE IF Known(d, token) THEN
        [ok |-> TRUE, bytes |-> << 1 >> \o int_to_3bytes(d[token])]
    ELSE
        IF Fits(LengthByte(token))
        THEN [ok |-> TRUE, bytes |-> << 0, LengthByte(token) >> \o encode(token)]
        ELSE [ok |-> FALSE, bytes |-> << 0 >>]

EncodeToken ==
    /\ pc = "encode"
    /\ tk < Len(tokens)
    /\ LET e == Emit(dictionary, tokens[tk + 1])
       IN  /\ encoded' = encoded \o e.bytes
           /\ pc' = IF e.ok THEN "encode" ELSE "raised"
           /\ marks' = IF e.ok THEN Append(marks, Len(encoded)) ELSE marks
    /\ tk' = tk + 1
    /\ UNCHANGED << lines, max_lines, idx, dictionary, text, tokens, data, i,
                    result, output, trail, full, cut, mode >>

\* return bytes(result); the stream is handed to the decoder
EncodeReturn ==
    /\ pc = "encode"
    /\ tk = Len(tokens)
    /\ data' = encoded
    /\ pc' = "decode"
    /\ UNCHANGED << lines, max_lines, idx, dictionary, text, tokens, tk, encoded,
                    marks, i, result, output, trail, full, cut, mode >>

\* ----------------------------------------- decompress_text_with_dictionary
\* reverse_dict.get(code, "?")
Lookup_default(d, code) ==
    IF \E w \in DOMAIN d : d[w] = code
    THEN CHOOSE w \in DOMAIN d : d[w] = code
    ELSE << 63 >>

\* reverse_dict.get(code, ""): the ids of a loaded dictionary are distinct
Lookup(d, code) ==
    IF \E w \in DOMAIN d : d[w] = code
    THEN CHOOSE w \in DOMAIN d : d[w] = code
    ELSE << >>

\* i + 3 >= len(data): a record that ends the data is refused
Short3_strict(d, j) == j + 3 >= Len(d)

\* i + 3 > len(data), with the cursor j after the tag
Short3(d, j) == j + 3 > Len(d)

\* i >= len(data), with the cursor j after the tag
NoLength(d, j) == j >= Len(d)

\* One iteration of the while loop on data d with the cursor at c < Len(d):
\* the new cursor, the strings appended and whether the loop was left by break.
Iter(dict, d, c) ==
    LET flag == d[c + 1]
        j == c + 1
    IN  IF flag = 1 THEN
            IF Short3(d, j) THEN [i |-> j, app |-> << >>, brk |-> TRUE]
            ELSE [i |-> j + 3,
                  app |-> << Lookup(dict, bytes3_to_int(Slice(d, j, j + 3))) >>,
                  brk |-> FALSE]
        ELSE IF flag = 0 \/ flag = 2 THEN
            IF NoLength(d, j) THEN [i |-> j, app |-> << >>, brk |-> TRUE]
            ELSE LET length == d[j + 1]
                 IN  [i |-> j + 1 + length,
                      app |-> << decode(Slice(d, j + 1, j + 1 + length)) >>,
                      brk |-> FALSE]
        ELSE [i |-> j, app |-> << >>, brk |-> FALSE]

DecodeStep ==
    /\ pc = "decode"
    /\ i < Len(data)
    /\ LET r == Iter(dictionary, data, i)
       IN  /\ i' = r.i
           /\ result' = result \o r.app
           /\ pc' = IF r.brk THEN "done" ELSE "decode"
           /\ output' = IF r.brk THEN join(result) ELSE output
    /\ trail' = Append(trail, [at |-> i, n |-> Len(result)])
    /\ UNCHANGED << lines, max_lines, idx, dictionary, text, tokens, tk, encoded,
                    marks, data, full, cut, mode >>

\* the loop condition fails: return ''.join(result)
DecodeReturn ==
    /\ pc = "decode"
    /\ i >= Len(data)
    /\ output' = join(result)
    /\ pc' = "done"
    /\ UNCHANGED << lines, max_lines, idx, dictionary, text, tokens, tk, encoded,
                    marks, data, i, result, trail, full, cut, mode >>

\* The compressed stream loses its tail and is decompressed again, with the
\* same dictionary; what the complete stream decoded to is kept in full.
Truncate ==
    /\ pc = "done"
    /\ mode = "text"
    /\ cut = -1
    /\ \E n \in 0..Len(encoded) :
        /\ cut' = n
        /\ data' = SubSeq(encoded, 1, n)
    /\ full' = result
    /\ i' = 0
    /\ result' = << >>
    /\ output' = << >>
    /\ trail' = << >>
    /\ pc' = "decode"
    /\ UNCHANGED << lines, max_lines, idx, dictionary, text, tokens, tk, encoded,
                    marks, mode >>

\* ---------------------------------------------------------- specifications
Next ==
    \/ LoadLine
    \/ LoadReturn
    \/ CompressStart
    \/ EncodeToken
    \/ EncodeReturn
    \/ DecodeStep
    \/ DecodeReturn

Spec == Init /\ [][Next]_vars

NextTrunc == Next \/ Truncate

SpecTrunc == InitTrunc /\ [][NextTrunc]_vars

NextDecode == LoadLine \/ LoadReturn \/ DecodeStep \/ DecodeReturn

SpecDecode == InitDecode /\ [][NextDecode]_vars

NextLoad == LoadLine \/ LoadReturn

SpecLoad == InitLoad /\ [][NextLoad]_vars

\* ------------------------------------------------------------------ claims
\* the encoder has returned and its stream was decoded whole
DecodedWhole == mode = "text" /\ pc = "done" /\ cut = -1

\* ids distinct and below 2^24, as load_dictionary_from_file gives them
LoadedIds(d) ==
    /\ \A v, w \in DOMAIN d : d[v] = d[w] => v = w
    /\ \A w \in DOMAIN d : d[w] < 16777216

\* every token of the text has at most 255 bytes of UTF-8
TokensFit(t) == \A k \in 1..Len(findall(t)) : Len(encode(findall(t)[k])) <= 255

\* C1: a text whose tokens have at most 255 bytes each, compressed and then
\* decompressed with the same loaded dictionary, comes back exactly: the
\* encoder does not raise and the decoder returns the text.
RoundTrip ==
    (mode = "text" /\ TokensFit(text) /\ LoadedIds(dictionary)) =>
        /\ pc # "raised"
        /\ DecodedWhole => output = text

\* a dictionary word, a space and an unknown word came back
RoundTripWitness ==
    /\ DecodedWhole
    /\ output = text
    /\ \E a, b, c \in 1..Len(tokens) :
        /\ tokens[a] \in DOMAIN dictionary
        /\ isspace(tokens[b])
        /\ ~isspace(tokens[c]) /\ tokens[c] \notin DOMAIN dictionary

\* the tokens have been computed
Tokenized == mode = "text" /\ pc \in {"encode", "decode", "done", "raised"}

\* C6: the tokens, in order, concatenate to the text; none is empty; each is
\* all whitespace or all non-whitespace; neighbours are of different classes;
\* the empty text has no token.
TokensPartition ==
    Tokenized =>
        /\ join(tokens) = text
        /\ \A k \in 1..Len(tokens) :
            /\ Len(tokens[k]) > 0
            /\ \/ \A c \in 1..Len(tokens[k]) : IsSpace(tokens[k][c])
               \/ \A c \in 1..Len(tokens[k]) : ~IsSpace(tokens[k][c])
        /\ \A k \in 1..(Len(tokens) - 1) :
            IsSpace(tokens[k][1]) # IsSpace(tokens[k + 1][1])
        /\ (text = << >> => tokens = << >>)

\* a text of several tokens, some of them runs of several characters
TokensPartitionWitness ==
    /\ Tokenized
    /\ Len(tokens) >= 3
    /\ \E k \in 1..Len(tokens) : Len(tokens[k]) >= 2 /\ isspace(tokens[k])
    /\ \E k \in 1..Len(tokens) : Len(tokens[k]) >= 2 /\ ~isspace(tokens[k])

\* the record the format gives a token
Record(token) ==
    IF IsSpace(token[1]) THEN << 2, Len(encode(token)) >> \o encode(token)
    ELSE IF token \in DOMAIN dictionary THEN
        << 1, (dictionary[token] \div 65536) % 256,
           (dictionary[token] \div 256) % 256, dictionary[token] % 256 >>
    ELSE << 0, Len(encode(token)) >> \o encode(token)

\* the tag bytes of the records emitted so far
Tags == [k \in 1..Len(marks) |-> encoded[marks[k] + 1]]

\* C7: the encoder emits one record per token, in token order: tag 2, length
\* and bytes for whitespace; tag 1 and the three id bytes for a dictionary
\* word; tag 0, length and bytes for any other word.  "the quick brown fox"
\* with the:0, quick:1, fox:2 gives the tags 1,2,1,2,0,2,1.  A length byte
\* followed by the bytes of the token supposes a token of at most 255 bytes.
EncoderFraming ==
    (mode = "text" /\ pc \in {"encode", "decode", "done", "raised"}
        /\ TokensFit(text)) =>
        /\ pc # "raised"
        /\ Len(marks) = tk
        /\ encoded = join([k \in 1..tk |-> Record(tokens[k])])
        /\ \A k \in 1..tk :
            marks[k] = Len(join([j \in 1..(k - 1) |-> Record(tokens[j])]))
        /\ (text = FoxText /\ lines = FoxLines /\ tk = Len(tokens)) =>
              Tags = << 1, 2, 1, 2, 0, 2, 1 >>

\* the scenario has been encoded
EncoderFramingWitness ==
    /\ mode = "text" /\ pc = "decode"
    /\ text = FoxText /\ lines = FoxLines
    /\ Tags = << 1, 2, 1, 2, 0, 2, 1 >>

\* offset of the k-th record of the stream, or its end after the last one
Mark(k) == IF k <= Len(marks) THEN marks[k] ELSE Len(encoded)

\* C5: decoding a complete stream of the encoder, the cursor stands at the
\* start of every loop iteration on the tag of the next record of the encoder,
\* the records are 4 bytes long for tag 1 and 2 + L bytes for tags 0 and 2, and
\* the loop is left with the cursor at len(data).
NoFramingDrift ==
    (mode = "text" /\ cut = -1 /\ pc \in {"decode", "done"}) =>
        /\ data = encoded
        /\ i = Mark(Len(trail) + 1)
        /\ \A k \in 1..Len(trail) : trail[k].at = Mark(k) /\ trail[k].n = k - 1
        /\ pc = "done" => (i = Len(data) /\ Len(result) = Len(marks))
        /\ \A k \in 1..Len(marks) :
            Mark(k + 1) - Mark(k) =
                IF data[marks[k] + 1] = 1 THEN 4 ELSE 2 + data[marks[k] + 2]

\* a stream with the three kinds of record was decoded to its end
NoFramingDriftWitness ==
    /\ DecodedWhole
    /\ i = Len(data)
    /\ {0, 1, 2} \subseteq {Tags[k] : k \in 1..Len(marks)}
    /\ \E k \in 1..Len(marks) : Tags[k] = 0 /\ data[marks[k] + 2] > 1

\* the next token is whitespace or an unknown word of more than 255 bytes
Oversized ==
    /\ pc = "encode" /\ tk < Len(tokens)
    /\ isspace(tokens[tk + 1]) \/ tokens[tk + 1] \notin DOMAIN dictionary
    /\ Len(encode(tokens[tk + 1])) > 255

\* C2: a whitespace token or unknown word of more than 255 bytes is encoded
\* without error as its tag, the length byte 255 and the first 255 bytes of
\* its UTF-8 encoding.
OversizedTruncated ==
    [][Oversized =>
        /\ pc' = "encode"
        /\ encoded' = encoded
                \o << IF isspace(tokens[tk + 1]) THEN 2 ELSE 0, 255 >>
                \o SubSeq(encode(tokens[tk + 1]), 1, 255)]_vars

\* the stream was cut to its first cut bytes and decoded again
DecodedCut == mode = "text" /\ pc = "done" /\ cut >= 0

\* the cut falls on the end of a record (or on the start of the stream)
AtBoundary == cut = Len(encoded) \/ \E k \in 1..Len(marks) : marks[k] = cut

\* number of records that lie wholly within the first cut bytes
Whole == Cardinality({k \in 1..Len(marks) : Mark(k + 1) <= cut})

\* C3: when the stream ends inside a record, the decoder does not raise and
\* returns exactly what the records before it decode to; the incomplete record
\* contributes nothing.
IncompleteRecordDropped ==
    (DecodedCut /\ ~AtBoundary) =>
        output = join(SubSeq(full, 1, Whole))

\* C4: a stream of the encoder cut at the end of its k-th record decodes to
\* what its first k records decode to in the complete stream, a prefix of the
\* full decode.
BoundaryPrefix ==
    (DecodedCut /\ AtBoundary) =>
        /\ Len(full) = Len(marks)
        /\ result = SubSeq(full, 1, Whole)
        /\ output = join(SubSeq(full, 1, Whole))
        /\ i = cut

\* a stream cut between two records, after at least two of them
BoundaryPrefixWitness ==
    /\ DecodedCut /\ AtBoundary
    /\ Whole >= 2 /\ Whole < Len(marks)
    /\ output # << >>
    /\ \E k \in 1..Whole : Tags[k] = 1

\* first field of the line of rank k (0-based), or << >> for a blank line
Field(k) == IF Len(split(lines[k + 1])) > 0 THEN split(lines[k + 1])[1] ELSE << >>

\* ranks, among the lines read so far, of the lines whose first field is w
Ranks(w) == {k \in 0..(idx - 1) : Field(k) = w}

\* the words read so far
Words == {Field(k) : k \in 0..(idx - 1)} \ {<< >>}

\* C8: a word that is the first field of several lines is mapped to the rank
\* of its earliest line; later occurrences leave the mapping unchanged.
FirstOccurrenceWins ==
    /\ DOMAIN dictionary = Words
    /\ \A w \in Words : \A k \in Ranks(w) : dictionary[w] <= k

\* C8 as the code has it: the word is mapped to the rank of its latest line
\* among those read; every later occurrence overwrites the mapping.
LastOccurrenceWins ==
    /\ DOMAIN dictionary = Words
    /\ \A w \in Words :
        dictionary[w] \in Ranks(w) /\ \A k \in Ranks(w) : dictionary[w] >= k

\* a word list with a repeated word was loaded to its end
LastOccurrenceWinsWitness ==
    /\ mode = "load" /\ pc = "done"
    /\ \E w \in Words : Cardinality(Ranks(w)) >= 2 /\ dictionary[w] = idx - 1
    /\ \E w \in Words : Cardinality(Ranks(w)) = 1

\* the ids of the dictionary
Ids == {dictionary[w] : w \in DOMAIN dictionary}

\* the cursor is on a complete tag-1 record whose id the dictionary lacks
UnknownId ==
    /\ pc = "decode" /\ i + 4 <= Len(data)
    /\ data[i + 1] = 1
    /\ data[i + 2] * 65536 + data[i + 3] * 256 + data[i + 4] \notin Ids

\* C9: a complete tag-1 record with an id the dictionary lacks makes the
\* decoder append the empty string, move past the 3 id bytes and stay in the
\* loop for the records that follow.
UnknownIdSkipped ==
    [][UnknownId =>
        /\ result' = Append(result, << >>)
        /\ i' = i + 4
        /\ pc' = "decode"]_vars

\* an unknown id was followed by a record that decoded to a word
UnknownIdSkippedWitness ==
    /\ mode = "decode" /\ pc = "done"
    /\ Len(data) >= 7 /\ data[1] = 1
    /\ data[2] * 65536 + data[3] * 256 + data[4] \notin Ids
    /\ Len(result) = 2 /\ result[1] = << >> /\ result[2] # << >>

\* C10: on a tag other than 0, 1 and 2 the decoder stops and returns the text
\* assembled so far; nothing after the unknown tag is decoded.
UnknownTagStops ==
    (mode = "decode" /\ pc = "done") =>
        \A k \in 1..Len(trail) :
            data[trail[k].at + 1] \notin {0, 1, 2} =>
                output = join(SubSeq(result, 1, trail[k].n))

====
